---- MODULE Spec2Model ----
(***************************************************************************)
(* The script 2.+ElasticSearch-Tricks-and-Tips.py as a state machine: the  *)
(* position in main(), the data frames and bulk list it builds, what it    *)
(* prints in its except branch, and the search engine it talks to (which   *)
(* indices exist, their settings, mappings and documents), together with   *)
(* the sequence of requests sent to the engine.                            *)
(***************************************************************************)
EXTENDS Integers, Sequences, FiniteSets, TLC

\* Largest number of rows of the review data frame (data/yelp_df_forES.msg).
MaxRows == 2
\* Largest number of rows of the business data frame (data/biz_stats_df.msg).
MaxBiz == 2

VARIABLES pc, es, df_read, df, biz, bulk_data, cursor, ind, printed, res, resp, log, raisedAt

vars == <<pc, es, df_read, df, biz, bulk_data, cursor, ind, printed, res, resp, log, raisedAt>>

(***************************************************************************)
(* Values                                                                  *)
(***************************************************************************)
\* A pandas null (NaN) cell.
Null == "NaN"

EmptyMap == [x \in {} |-> {}]

\* Document ids the script names, and two more.
ExplainId == "fmn5yGrPChOYMR2vGOIrYA"
TermBusinessId == "VVeogjZya58oiTxK7qUjAQ"
QBusinessId == "JokKtdXU7zXHcr20Lrk29A"

(***************************************************************************)
(* Schema bodies of the script                                             *)
(***************************************************************************)
MY_SETTINGS ==
  [settings |-> [analysis |->
     [char_filter |-> ("&_to_and" :> [type |-> "mapping", mappings |-> <<"&=> and ">>]),
      filter      |-> [my_stopwords |-> [type |-> "stop", stopwords |-> <<"the", "a">>]],
      analyzer    |-> [my_analyzer |->
                         [type |-> "custom",
                          char_filter |-> <<"html_strip", "&_to_and">>,
                          tokenizer |-> "standard",
                          filter |-> <<"lowercase", "my_stopwords">>]]]]]

MY_MAPPING ==
  [my_doc_type |-> [properties |->
     [title |-> [type |-> "string", analyzer |-> "my_analyzer"]]]]

MAPPING ==
  [review |-> [properties |->
     [business_id    |-> [index |-> "not_analyzed", type |-> "string"],
      date           |-> [index |-> "not_analyzed", format |-> "dateOptionalTime", type |-> "date"],
      review_id      |-> [index |-> "not_analyzed", type |-> "string"],
      stars          |-> [index |-> "not_analyzed", type |-> "integer"],
      text           |-> [index |-> "analyzed", analyzer |-> "english", store |-> "yes",
                          term_vector |-> "with_positions_offsets_payloads", type |-> "string"],
      fake_name      |-> [index |-> "not_analyzed", type |-> "string"],
      text_orig      |-> [index |-> "not_analyzed", type |-> "string"],
      user_id        |-> [index |-> "not_analyzed", type |-> "string"],
      net_sentiment  |-> [index |-> "not_analyzed", type |-> "integer"],
      sent_per_token |-> [index |-> "not_analyzed", type |-> "float"]]]]

B_MAPPING_analyzed ==
  [business |-> [properties |->
     [business_id           |-> [type |-> "string"],
      reviews               |-> [index |-> "not_analyzed", type |-> "integer"],
      stars_median          |-> [index |-> "not_analyzed", type |-> "float"],
      stars_mean            |-> [index |-> "not_analyzed", type |-> "float"],
      text_length_median    |-> [index |-> "not_analyzed", type |-> "float"],
      fake_name             |-> [index |-> "not_analyzed", type |-> "string"],
      net_sentiment_median  |-> [index |-> "not_analyzed", type |-> "float"],
      sent_per_token_median |-> [index |-> "not_analyzed", type |-> "float"]]]]

B_MAPPING ==
  [business |-> [properties |->
     [business_id           |-> [index |-> "not_analyzed", type |-> "string"],
      reviews               |-> [index |-> "not_analyzed", type |-> "integer"],
      stars_median          |-> [index |-> "not_analyzed", type |-> "float"],
      stars_mean            |-> [index |-> "not_analyzed", type |-> "float"],
      text_length_median    |-> [index |-> "not_analyzed", type |-> "float"],
      fake_name             |-> [index |-> "not_analyzed", type |-> "string"],
      net_sentiment_median  |-> [index |-> "not_analyzed", type |-> "float"],
      sent_per_token_median |-> [index |-> "not_analyzed", type |-> "float"]]]]

(***************************************************************************)
(* Text analysis of the engine: the standard tokenizer cuts a text into   *)
(* its words, and an analyzer turns the words into terms.                  *)
(***************************************************************************)
\* The standard tokenizer on the texts of the model; an id is one word.
Tokenize(text) ==
  CASE text = "Good pizzas" -> <<"Good", "pizzas">>
    [] text = "bad service" -> <<"bad", "service">>
    [] text = "Not good" -> <<"Not", "good">>
    [] text = "good pizza" -> <<"good", "pizza">>
    [] text = "pizza-cookie" -> <<"pizza", "cookie">>
    [] text = "cheese piza" -> <<"cheese", "piza">>
    [] OTHER -> <<text>>

Lower(w) ==
  CASE w = "Good" -> "good"
    [] w = "Pizza" -> "pizza"
    [] w = "Not" -> "not"
    [] w = TermBusinessId -> "vveogjzya58oitxk7qujaq"
    [] w = QBusinessId -> "jokktdxu7zxhcr20lrk29a"
    [] w = ExplainId -> "fmn5ygrpchoymr2vgoirya"
    [] OTHER -> w

\* The Porter stemmer on the words of the model.
Stem(w) ==
  CASE w = "pizzas" -> "pizza"
    [] w = "cookies" -> "cooki"
    [] w = "service" -> "servic"
    [] OTHER -> w

\* The stop words of the english analyzer (the list of lines 132-134).
EnglishStopWords ==
  {"a", "an", "and", "are", "as", "at", "be", "but", "by", "for", "if", "in", "into",
   "is", "it", "no", "not", "of", "on", "or", "such", "that", "the", "their", "then",
   "there", "these", "they", "this", "to", "was", "will", "with"}

BuiltInAnalyzers == {"standard", "english", "keyword"}

\* The terms analyzer `an` makes of a text.
Analyze(an, text) ==
  LET words == Tokenize(text) IN
  CASE an = "english" ->
         {Stem(Lower(words[i])) : i \in {j \in DOMAIN words : Lower(words[j]) \notin EnglishStopWords}}
    [] an = "keyword" -> {text}
    [] an = "my_analyzer" ->
         {Lower(words[i]) : i \in {j \in DOMAIN words : Lower(words[j]) \notin {"the", "a"}}}
    [] OTHER -> {Lower(words[i]) : i \in DOMAIN words}

(***************************************************************************)
(* The engine: es maps each existing index to its settings, its mappings   *)
(* (document type -> properties) and its documents, in the order written.  *)
(***************************************************************************)
\* json.dumps: the JSON text of a dict, as the token written for each key; a
\* pandas null is written as the bare token NaN, which is no JSON.
json_dumps(obj) ==
  [f \in DOMAIN obj |-> IF obj[f] = Null THEN [nan |-> TRUE] ELSE [value |-> obj[f]]]

\* Whether the engine can parse a document body: no NaN token in it.
ValidJson(body) == \A f \in DOMAIN body : "value" \in DOMAIN body[f]

\* The document a valid body denotes.
JsonParse(body) == [f \in DOMAIN body |-> body[f].value]

EsExists(e, name) == name \in DOMAIN e

EsCreate(e, name, body) ==
  [n \in DOMAIN e \cup {name} |->
     IF n = name THEN [settings |-> body, mappings |-> EmptyMap, docs |-> <<>>] ELSE e[n]]

EsDelete(e, name) == [n \in DOMAIN e \ {name} |-> e[n]]

\* The custom analyzers an index was created with.
CustomAnalyzers(settings) ==
  IF "settings" \in DOMAIN settings
    THEN DOMAIN settings.settings.analysis.analyzer
    ELSE {}

\* The analyzers the properties of a mapping body name.
NamedAnalyzers(props) ==
  {props[f].analyzer : f \in {g \in DOMAIN props : "analyzer" \in DOMAIN props[g]}}

\* put_mapping is accepted when the index exists, the body is keyed by the
\* document type, every analyzer it names resolves, and no field of the type
\* that is already mapped is mapped differently.
PutMappingAccepted(e, name, doc_type, body) ==
  /\ name \in DOMAIN e
  /\ doc_type \in DOMAIN body
  /\ NamedAnalyzers(body[doc_type].properties)
       \subseteq BuiltInAnalyzers \cup CustomAnalyzers(e[name].settings)
  /\ doc_type \in DOMAIN e[name].mappings =>
       \A f \in DOMAIN body[doc_type].properties \cap DOMAIN e[name].mappings[doc_type].properties :
          body[doc_type].properties[f] = e[name].mappings[doc_type].properties[f]

MergeProperties(old, new) ==
  [f \in DOMAIN old \cup DOMAIN new |-> IF f \in DOMAIN new THEN new[f] ELSE old[f]]

EsPutMapping(e, name, doc_type, body) ==
  LET old == e[name].mappings
      props == IF doc_type \in DOMAIN old
                 THEN MergeProperties(old[doc_type].properties, body[doc_type].properties)
                 ELSE body[doc_type].properties
  IN [e EXCEPT ![name].mappings =
        [t \in DOMAIN old \cup {doc_type} |->
           IF t = doc_type THEN [properties |-> props] ELSE old[t]]]

\* Indexing a document by id: a document of the same type and id is replaced.
\* An index that does not exist is created on the fly.
EsIndex(e, name, doc_type, id, source) ==
  LET e1 == IF name \in DOMAIN e THEN e ELSE EsCreate(e, name, EmptyMap)
      kept == SelectSeq(e1[name].docs, LAMBDA d : ~(d._type = doc_type /\ d._id = id))
  IN [e1 EXCEPT ![name].docs =
        Append(kept, [_type |-> doc_type, _id |-> id, _source |-> source])]

\* The mapping of a field of a document type; a field no mapping names is
\* mapped dynamically, as an analyzed string.
FieldMapping(e, name, doc_type, field) ==
  IF /\ doc_type \in DOMAIN e[name].mappings
     /\ field \in DOMAIN e[name].mappings[doc_type].properties
    THEN e[name].mappings[doc_type].properties[field]
    ELSE [type |-> "string"]

IsAnalyzed(m) == IF "index" \in DOMAIN m THEN m.index = "analyzed" ELSE TRUE

AnalyzerOf(m) == IF "analyzer" \in DOMAIN m THEN m.analyzer ELSE "standard"

\* The terms the engine indexes for a field value under a field mapping.
IndexedTerms(m, value) == IF IsAnalyzed(m) THEN Analyze(AnalyzerOf(m), value) ELSE {value}

DocTerms(e, name, d, field) ==
  IF field \in DOMAIN d._source
    THEN IndexedTerms(FieldMapping(e, name, d._type, field), d._source[field])
    ELSE {}

\* A match query: the query text goes through the field's analyzer; "and"
\* asks for every term, "or" for one of them.
MatchHits(e, name, doc_type, field, query, operator) ==
  LET qterms == IndexedTerms(FieldMapping(e, name, doc_type, field), query)
  IN SelectSeq(e[name].docs, LAMBDA d :
       /\ d._type = doc_type
       /\ qterms # {}
       /\ IF operator = "and"
            THEN qterms \subseteq DocTerms(e, name, d, field)
            ELSE qterms \cap DocTerms(e, name, d, field) # {})

\* A term filter: the literal is not analyzed and is looked up among the
\* indexed terms of the field.
TermHits(e, name, doc_type, field, value) ==
  SelectSeq(e[name].docs, LAMBDA d :
    d._type = doc_type /\ value \in DocTerms(e, name, d, field))

\* A q= search: the query goes through the standard analyzer and is looked up
\* in every field of the document (the _all field).
QueryStringHits(e, name, doc_type, q) ==
  SelectSeq(e[name].docs, LAMBDA d :
    /\ d._type = doc_type
    /\ \E f \in DOMAIN d._source :
         Analyze("standard", q) \cap Analyze("standard", d._source[f]) # {})

\* A terms aggregation over hits: each value of the field with its count.
TermsBuckets(hits, field) ==
  [v \in {hits[i]._source[field] : i \in DOMAIN hits} |->
     Cardinality({i \in DOMAIN hits : hits[i]._source[field] = v})]

(***************************************************************************)
(* The rows the data frames may hold                                       *)
(***************************************************************************)
ReviewRow(id, text, spt, bid) ==
  [text |-> text, net_sentiment |-> "40", sent_per_token |-> spt, stars |-> "5",
   fake_name |-> "Pizzeria", user_id |-> "u1", business_id |-> bid,
   date |-> "2014-01-01", review_id |-> id]

ReviewRows ==
  {ReviewRow(ExplainId, "Good pizzas", "0.5", TermBusinessId),
   ReviewRow(ExplainId, "bad service", "0.1", QBusinessId),
   ReviewRow("r2", "Not good", "0.5", TermBusinessId),
   ReviewRow("r2", "pizzas", Null, QBusinessId)}

BizRow(bid, n) ==
  [net_sentiment_median |-> "30", sent_per_token_median |-> "0.3", stars_median |-> "4",
   stars_mean |-> "4.2", fake_name |-> "Pizzeria", text_length_median |-> "90",
   business_id |-> bid, reviews |-> n]

BizRows ==
  {BizRow(TermBusinessId, "3"), BizRow(QBusinessId, "1"), BizRow(QBusinessId, Null)}

\* All sequences over S of length at most n.
SeqsUpTo(S, n) == UNION {[1..k -> S] : k \in 0..n}

\* What an earlier run of the script to its end leaves in the engine.
LeftOver ==
  [my_index |-> [settings |-> MY_SETTINGS, mappings |-> MY_MAPPING, docs |-> <<>>],
   yelp |-> [settings |-> EmptyMap,
             mappings |-> [review |-> MAPPING["review"], business |-> B_MAPPING["business"]],
             docs |-> <<[_type |-> "review", _id |-> "old",
                         _source |-> ReviewRow("old", "good pizza", "0.5", QBusinessId)],
                        [_type |-> "business", _id |-> QBusinessId,
                         _source |-> BizRow(QBusinessId, "1")]>>]]

(***************************************************************************)
(* The script                                                              *)
(***************************************************************************)
NoBody == EmptyMap

\* A request to the engine and how it ended: "ok", "raised" (the call raised
\* and changed nothing), or for exists the answer.
Req(op, index, doc_type, id, body, result) ==
  [op |-> op, index |-> index, doc_type |-> doc_type, id |-> id, body |-> body,
   result |-> result]

NoResponse == [at |-> "none", hits |-> <<>>, aggs |-> EmptyMap]

Init ==
  /\ pc = "L90"
  /\ es \in {EmptyMap, LeftOver}
  /\ df_read = <<>>
  /\ df = <<>>
  /\ biz = <<>>
  /\ bulk_data = <<>>
  /\ cursor = 0
  /\ ind = 0
  /\ printed = <<>>
  /\ res = [errors |-> FALSE, items |-> <<>>]
  /\ resp = NoResponse
  /\ log = <<>>
  /\ raisedAt = "none"

\* An uncaught exception ends main().
Raise(at, r) ==
  /\ pc' = "raised"
  /\ raisedAt' = at
  /\ log' = Append(log, r)
  /\ UNCHANGED <<es, df_read, df, biz, bulk_data, cursor, ind, printed, res, resp>>

\* An uncaught exception of the script's own (an IndexError).
Crash(at) ==
  /\ pc' = "raised"
  /\ raisedAt' = at
  /\ UNCHANGED <<es, df_read, df, biz, bulk_data, cursor, ind, printed, res, resp, log>>

\* if local_es.indices.exists(name): ... (lines 90, 242, 299)
Exists(at, name, thenL, elseL) ==
  /\ pc = at
  /\ \/ /\ pc' = IF EsExists(es, name) THEN thenL ELSE elseL
        /\ log' = Append(log, Req("exists", name, "", "", NoBody,
                                 IF EsExists(es, name) THEN "true" ELSE "false"))
        /\ UNCHANGED <<es, df_read, df, biz, bulk_data, cursor, ind, printed, res, resp, raisedAt>>
     \/ Raise(at, Req("exists", name, "", "", NoBody, "raised"))

\* local_es.indices.delete(index=name) (lines 91, 243, 300)
Delete(at, name, next) ==
  /\ pc = at
  /\ \/ /\ EsExists(es, name)
        /\ es' = EsDelete(es, name)
        /\ pc' = next
        /\ log' = Append(log, Req("delete", name, "", "", NoBody, "ok"))
        /\ UNCHANGED <<df_read, df, biz, bulk_data, cursor, ind, printed, res, resp, raisedAt>>
     \/ Raise(at, Req("delete", name, "", "", NoBody, "raised"))

\* local_es.indices.create(index=name[, body=...]) (lines 92, 244, 301)
Create(at, name, body, next) ==
  /\ pc = at
  /\ \/ /\ ~EsExists(es, name)
        /\ es' = EsCreate(es, name, body)
        /\ pc' = next
        /\ log' = Append(log, Req("create", name, "", "", body, "ok"))
        /\ UNCHANGED <<df_read, df, biz, bulk_data, cursor, ind, printed, res, resp, raisedAt>>
     \/ Raise(at, Req("create", name, "", "", body, "raised"))

\* local_es.indices.put_mapping(index=name, doc_type=..., body=...)
\* (lines 245, 302, 407)
PutMapping(at, name, doc_type, body, next) ==
  /\ pc = at
  /\ \/ /\ PutMappingAccepted(es, name, doc_type, body)
        /\ es' = EsPutMapping(es, name, doc_type, body)
        /\ pc' = next
        /\ log' = Append(log, Req("put_mapping", name, doc_type, "", body, "ok"))
        /\ UNCHANGED <<df_read, df, biz, bulk_data, cursor, ind, printed, res, resp, raisedAt>>
     \/ Raise(at, Req("put_mapping", name, doc_type, "", body, "raised"))

\* A call that only reads the engine and whose answer the script prints or
\* drops: analyze, get_mapping, a q= search, more_like_this, suggest.
Probe(at, op, name, doc_type, body, next) ==
  /\ pc = at
  /\ \/ /\ EsExists(es, name)
        /\ pc' = next
        /\ log' = Append(log, Req(op, name, doc_type, "", body, "ok"))
        /\ UNCHANGED <<es, df_read, df, biz, bulk_data, cursor, ind, printed, res, resp, raisedAt>>
     \/ Raise(at, Req(op, name, doc_type, "", body, "raised"))

L90 == Exists("L90", "my_index", "L91", "L92")
L91 == Delete("L91", "my_index", "L92")
L92 == Create("L92", "my_index", NoBody, "L95")
L95 == Probe("L95", "analyze", "my_index", "", [analyzer |-> "standard"], "L104")
L104 == Probe("L104", "analyze", "my_index", "", [analyzer |-> "standard"], "L109")
L109 == Probe("L109", "analyze", "my_index", "", [analyzer |-> "keyword"], "L138")
L138 == Probe("L138", "analyze", "my_index", "", [analyzer |-> "english"], "L242")

L242 == Exists("L242", "my_index", "L243", "L244")
L243 == Delete("L243", "my_index", "L244")
L244_noSettings == Create("L244", "my_index", NoBody, "L245")

L244 == Create("L244", "my_index", MY_SETTINGS, "L245")
L245 == PutMapping("L245", "my_index", "my_doc_type", MY_MAPPING, "L248")
L248 == Probe("L248", "get_mapping", "my_index", "", NoBody, "L250")
L250 == Probe("L250", "analyze", "my_index", "", [analyzer |-> "my_analyzer"], "L258")
L258 == Probe("L258", "analyze", "my_index", "", [analyzer |-> "standard"], "L261")
L261 == Probe("L261", "analyze", "my_index", "", [tokenizer |-> "standard"], "L265")
L265 == Probe("L265", "analyze", "my_index", "",
              [analyzer |-> "english", tokenizer |-> "standard"], "L269")

\* df = pd.read_msgpack("./data/yelp_df_forES.msg"); df_read keeps the frame
\* as read, which df names until line 278 rebinds it.
L269 ==
  /\ pc = "L269"
  /\ df_read' \in SeqsUpTo(ReviewRows, MaxRows)
  /\ df' = df_read'
  /\ pc' = "L278"
  /\ UNCHANGED <<es, biz, bulk_data, cursor, ind, printed, res, resp, log, raisedAt>>

DropNullRows_none(rows) == rows

\* df[df.sent_per_token.isnull() != True]
DropNullRows(rows) == SelectSeq(rows, LAMBDA r : r.sent_per_token # Null)

L278 ==
  /\ pc = "L278"
  /\ df' = DropNullRows(df)
  /\ pc' = "L299"
  /\ UNCHANGED <<es, df_read, biz, bulk_data, cursor, ind, printed, res, resp, log, raisedAt>>

L299 == Exists("L299", "yelp", "L300", "L301")
L300 == Delete("L300", "yelp", "L301")
L301 == Create("L301", "yelp", NoBody, "L302")
L302_skipped ==
  /\ pc = "L302"
  /\ pc' = "L305"
  /\ UNCHANGED <<es, df_read, df, biz, bulk_data, cursor, ind, printed, res, resp, log, raisedAt>>

L302 == PutMapping("L302", "yelp", "review", MAPPING, "L305")

\* The two dicts the loop of lines 307-325 appends for a row.
review_data_dict(row) ==
  [text_orig |-> row.text, text |-> row.text, net_sentiment |-> row.net_sentiment,
   sent_per_token |-> row.sent_per_token, stars |-> row.stars, fake_name |-> row.fake_name,
   user_id |-> row.user_id, business_id |-> row.business_id, date |-> row.date,
   review_id |-> row.review_id]

\* The action dict with the business the review is about as its _id.
review_op_dict_business(row) ==
  [index |-> [_index |-> "yelp", _type |-> "review", _id |-> row.business_id]]

review_op_dict(row) ==
  [index |-> [_index |-> "yelp", _type |-> "review", _id |-> row.review_id]]

\* bulk_data = []
L305 ==
  /\ pc = "L305"
  /\ bulk_data' = <<>>
  /\ cursor' = 1
  /\ pc' = "L307"
  /\ UNCHANGED <<es, df_read, df, biz, ind, printed, res, resp, log, raisedAt>>

\* for index, row in df.iterrows(): one pass of the loop, or its end.
L307 ==
  /\ pc = "L307"
  /\ IF cursor <= Len(df)
       THEN /\ bulk_data' = bulk_data \o <<review_op_dict(df[cursor]), review_data_dict(df[cursor])>>
            /\ cursor' = cursor + 1
            /\ pc' = pc
       ELSE /\ pc' = "L327"
            /\ UNCHANGED <<bulk_data, cursor>>
  /\ UNCHANGED <<es, df_read, df, biz, ind, printed, res, resp, log, raisedAt>>

\* pprint(bulk_data[0]); pprint(bulk_data[1]): an IndexError on an empty list.
L327 ==
  /\ pc = "L327"
  /\ IF Len(bulk_data) = 0
       THEN Crash("L327")
       ELSE /\ pc' = "L335"
            /\ ind' = 0
            /\ UNCHANGED <<es, df_read, df, biz, bulk_data, cursor, printed, res, resp, log, raisedAt>>

\* except: print(obj) (lines 340-341): what has been printed, after it.
except_pass(obj) == printed

except_print(obj) == Append(printed, obj)

review_index_id_business(obj) == obj.business_id

\* id=obj['review_id'] of line 339
review_index_id(obj) == obj.review_id

\* for ind, obj in enumerate(bulk_data): one pass of the loop of lines 335-341,
\* or its end. The index call either writes the document or raises, and the
\* except branch prints the payload and goes on.
L335 ==
  /\ pc = "L335"
  /\ \/ /\ ind < Len(bulk_data)
        /\ ind % 2 = 0
        /\ ind' = ind + 1
        /\ UNCHANGED <<pc, es, printed, log>>
     \/ /\ ind < Len(bulk_data)
        /\ ind % 2 # 0
        /\ LET obj == bulk_data[ind + 1]
               id == review_index_id(obj)
               body == json_dumps(obj)
           IN \/ /\ ValidJson(body)
                 /\ es' = EsIndex(es, "yelp", "review", id, JsonParse(body))
                 /\ log' = Append(log, Req("index", "yelp", "review", id, body, "ok"))
                 /\ UNCHANGED printed
              \/ /\ printed' = except_print(obj)
                 /\ log' = Append(log, Req("index", "yelp", "review", id, body, "raised"))
                 /\ UNCHANGED es
        /\ ind' = ind + 1
        /\ UNCHANGED pc
     \/ /\ ind >= Len(bulk_data)
        /\ pc' = "L343"
        /\ UNCHANGED <<es, ind, printed, log>>
  /\ UNCHANGED <<df_read, df, biz, bulk_data, cursor, res, resp, raisedAt>>

L343 == Probe("L343", "search", "yelp", "review", [q |-> "pizza-cookie"], "L349")

\* local_es.explain(..., id=u'fmn5yGrPChOYMR2vGOIrYA'): the engine answers 404
\* for a document it does not hold, which the client raises as NotFoundError.
L349 ==
  /\ pc = "L349"
  /\ \/ /\ EsExists(es, "yelp")
        /\ \E i \in DOMAIN es["yelp"].docs :
             es["yelp"].docs[i]._type = "review" /\ es["yelp"].docs[i]._id = ExplainId
        /\ pc' = "L357"
        /\ log' = Append(log, Req("explain", "yelp", "review", ExplainId, [q |-> "pizza-cookie"], "ok"))
        /\ UNCHANGED <<es, df_read, df, biz, bulk_data, cursor, ind, printed, res, resp, raisedAt>>
     \/ Raise("L349", Req("explain", "yelp", "review", ExplainId, [q |-> "pizza-cookie"], "raised"))

\* text = df.iloc[0].text: an IndexError on an empty frame.
L357 ==
  /\ pc = "L357"
  /\ IF Len(df) = 0
       THEN Crash("L357")
       ELSE /\ pc' = "L369"
            /\ UNCHANGED <<es, df_read, df, biz, bulk_data, cursor, ind, printed, res, resp, log, raisedAt>>

L369 == Probe("L369", "search", "yelp", "review",
              [more_like_this |-> [fields |-> <<"text">>, like_text |-> df[1].text,
                                   analyzer |-> "english", min_term_freq |-> 2]], "L380")
L380 == Probe("L380", "suggest", "yelp", "",
              [text |-> "cheese piza", term |-> [field |-> "text"]], "L389")

\* biz = pd.read_msgpack("data/biz_stats_df.msg")
L389 ==
  /\ pc = "L389"
  /\ biz' \in SeqsUpTo(BizRows, MaxBiz)
  /\ pc' = "L407"
  /\ UNCHANGED <<es, df_read, df, bulk_data, cursor, ind, printed, res, resp, log, raisedAt>>

\* Lines 405-407 with the delete and the create left in.
L407_recreate ==
  /\ pc = "L407"
  /\ EsExists(es, "yelp")
  /\ es' = EsPutMapping(EsCreate(EsDelete(es, "yelp"), "yelp", NoBody), "yelp", "business", B_MAPPING)
  /\ pc' = "L409"
  /\ log' = log \o <<Req("delete", "yelp", "", "", NoBody, "ok"),
                     Req("create", "yelp", "", "", NoBody, "ok"),
                     Req("put_mapping", "yelp", "business", "", B_MAPPING, "ok")>>
  /\ UNCHANGED <<df_read, df, biz, bulk_data, cursor, ind, printed, res, resp, raisedAt>>

\* Lines 405-407: the index is neither dropped nor created again; the
\* business mapping is put beside the review mapping.
L407 == PutMapping("L407", "yelp", "business", B_MAPPING, "L409")

\* The two dicts the loop of lines 411-427 appends for a row.
business_data_dict(row) ==
  [net_sentiment_median |-> row.net_sentiment_median,
   sent_per_token_median |-> row.sent_per_token_median,
   stars_median |-> row.stars_median, stars_mean |-> row.stars_mean,
   fake_name |-> row.fake_name, text_length_median |-> row.text_length_median,
   business_id |-> row.business_id, reviews |-> row.reviews]

business_op_dict(row) ==
  [index |-> [_index |-> "yelp", _type |-> "business", _id |-> row.business_id]]

\* bulk_data = []
L409 ==
  /\ pc = "L409"
  /\ bulk_data' = <<>>
  /\ cursor' = 1
  /\ pc' = "L411"
  /\ UNCHANGED <<es, df_read, df, biz, ind, printed, res, resp, log, raisedAt>>

\* for index, row in biz.iterrows(): one pass of the loop, or its end.
L411 ==
  /\ pc = "L411"
  /\ IF cursor <= Len(biz)
       THEN /\ bulk_data' = bulk_data \o <<business_op_dict(biz[cursor]), business_data_dict(biz[cursor])>>
            /\ cursor' = cursor + 1
            /\ pc' = pc
       ELSE /\ pc' = "L430"
            /\ UNCHANGED <<bulk_data, cursor>>
  /\ UNCHANGED <<es, df_read, df, biz, ind, printed, res, resp, log, raisedAt>>

\* The engine applying a bulk body: the pairs (action, payload) from pair k on,
\* in order; a pair whose payload it cannot parse is refused by itself and
\* the others are written.
RECURSIVE BulkApply(_, _, _)
BulkApply(e, body, k) ==
  IF 2 * k > Len(body)
    THEN e
    ELSE LET op == body[2 * k - 1].index
             payload == json_dumps(body[2 * k])
         IN IF ~ValidJson(payload)
              THEN BulkApply(e, body, k + 1)
              ELSE BulkApply(EsIndex(e, op._index, op._type, op._id, JsonParse(payload)),
                             body, k + 1)

BulkItems(body) ==
  [k \in 1..(Len(body) \div 2) |->
     IF ValidJson(json_dumps(body[2 * k])) THEN "ok" ELSE "error"]

\* res = local_es.bulk(index='yelp', body=bulk_data): the engine answers with
\* one item per pair, or the call raises (a timeout, a transport error, an
\* empty body) and nothing catches it.
L430 ==
  /\ pc = "L430"
  /\ \/ /\ Len(bulk_data) > 0
        /\ es' = BulkApply(es, bulk_data, 1)
        /\ res' = [errors |-> \E k \in DOMAIN BulkItems(bulk_data) : BulkItems(bulk_data)[k] = "error",
                   items |-> BulkItems(bulk_data)]
        /\ log' = Append(log, Req("bulk", "yelp", "", "", bulk_data, "ok"))
        /\ pc' = "L433"
        /\ UNCHANGED <<df_read, df, biz, bulk_data, cursor, ind, printed, resp, raisedAt>>
     \/ Raise("L430", Req("bulk", "yelp", "", "", bulk_data, "raised"))

\* print(local_es.search(index='yelp', doc_type='business', q=...))
L433 ==
  /\ pc = "L433"
  /\ \/ /\ EsExists(es, "yelp")
        /\ resp' = [at |-> "L433", aggs |-> EmptyMap,
                    hits |-> QueryStringHits(es, "yelp", "business", QBusinessId)]
        /\ pc' = "L450"
        /\ log' = Append(log, Req("search", "yelp", "business", "", [q |-> QBusinessId], "ok"))
        /\ UNCHANGED <<es, df_read, df, biz, bulk_data, cursor, ind, printed, res, raisedAt>>
     \/ Raise("L433", Req("search", "yelp", "business", "", [q |-> QBusinessId], "raised"))

MATCH_QUERY_or ==
  [query |-> [match |-> [text |-> [query |-> "good pizza", operator |-> "or"]]],
   aggs |-> [businesses |-> [terms |-> [field |-> "business_id"]]]]

\* The match query of lines 439-448.
MATCH_QUERY ==
  [query |-> [match |-> [text |-> [query |-> "good pizza", operator |-> "and"]]],
   aggs |-> [businesses |-> [terms |-> [field |-> "business_id"]]]]

\* pprint(local_es.search(index="yelp", doc_type="review", body=json.dumps(QUERY)))
L450 ==
  /\ pc = "L450"
  /\ \/ /\ EsExists(es, "yelp")
        /\ LET hits == MatchHits(es, "yelp", "review", "text",
                                 MATCH_QUERY.query.match.text.query,
                                 MATCH_QUERY.query.match.text.operator)
           IN resp' = [at |-> "L450", hits |-> hits,
                       aggs |-> TermsBuckets(hits, MATCH_QUERY.aggs.businesses.terms.field)]
        /\ pc' = "L461"
        /\ log' = Append(log, Req("search", "yelp", "review", "", MATCH_QUERY, "ok"))
        /\ UNCHANGED <<es, df_read, df, biz, bulk_data, cursor, ind, printed, res, raisedAt>>
     \/ Raise("L450", Req("search", "yelp", "review", "", MATCH_QUERY, "raised"))

\* The constant_score term filter of lines 454-459.
TERM_QUERY ==
  [query |-> [constant_score |-> [filter |-> [term |-> [business_id |-> TermBusinessId]]]]]

\* pprint(local_es.search(index="yelp", doc_type="business", body=json.dumps(QUERY)))
L461 ==
  /\ pc = "L461"
  /\ \/ /\ EsExists(es, "yelp")
        /\ resp' = [at |-> "L461", aggs |-> EmptyMap,
                    hits |-> TermHits(es, "yelp", "business", "business_id",
                                      TERM_QUERY.query.constant_score.filter.term.business_id)]
        /\ pc' = "done"
        /\ log' = Append(log, Req("search", "yelp", "business", "", TERM_QUERY, "ok"))
        /\ UNCHANGED <<es, df_read, df, biz, bulk_data, cursor, ind, printed, res, raisedAt>>
     \/ Raise("L461", Req("search", "yelp", "business", "", TERM_QUERY, "raised"))

Next ==
  \/ L90 \/ L91 \/ L92 \/ L95 \/ L104 \/ L109 \/ L138
  \/ L242 \/ L243 \/ L244 \/ L245 \/ L248 \/ L250 \/ L258 \/ L261 \/ L265
  \/ L269 \/ L278 \/ L299 \/ L300 \/ L301 \/ L302 \/ L305 \/ L307 \/ L327 \/ L335
  \/ L343 \/ L349 \/ L357 \/ L369 \/ L380
  \/ L389 \/ L407 \/ L409 \/ L411 \/ L430 \/ L433 \/ L450 \/ L461

Spec == Init /\ [][Next]_vars

(***************************************************************************)
(* Properties                                                              *)
(***************************************************************************)
\* The per-document index requests sent so far, in order.
IndexReqs == SelectSeq(log, LAMBDA r : r.op = "index")

\* The number of documents of the batch in bulk_data, and its k-th payload.
BatchSize == Len(bulk_data) \div 2

Payload(k) == bulk_data[2 * k]

\* The positions of the per-document requests that raised.
RejectedReqs == {i \in DOMAIN IndexReqs : IndexReqs[i].result = "raised"}

ReviewIdsDistinct ==
  \A i, j \in 1..BatchSize : Payload(i).review_id = Payload(j).review_id => i = j

ReviewDocs == SelectSeq(es["yelp"].docs, LAMBDA d : d._type = "review")

\* C1: at the end of the one-by-one load of a batch of N documents with
\* pairwise distinct ids, if exactly the request for document k was rejected,
\* then all N documents were attempted, in batch order, N-1 requests
\* succeeded, what the except branch recorded is exactly document k's payload
\* (which carries its id), and each of the other N-1 documents is in the index
\* under its id with its payload.
C1_FailureIsolation ==
  (pc = "L343" /\ ReviewIdsDistinct) =>
    \A k \in 1..BatchSize :
      RejectedReqs = {k} =>
        /\ Len(IndexReqs) = BatchSize
        /\ \A j \in 1..BatchSize :
             /\ IndexReqs[j].id = Payload(j).review_id
             /\ IndexReqs[j].body = json_dumps(Payload(j))
        /\ Cardinality({i \in DOMAIN IndexReqs : IndexReqs[i].result = "ok"}) = BatchSize - 1
        /\ printed = <<Payload(k)>>
        /\ printed[1].review_id = Payload(k).review_id
        /\ \A j \in 1..BatchSize \ {k} :
             \E i \in DOMAIN ReviewDocs :
               /\ ReviewDocs[i]._id = Payload(j).review_id
               /\ ReviewDocs[i]._source = Payload(j)

\* A batch of at least two documents with distinct ids whose load has ended,
\* with exactly one request rejected, and not the last one.
C1_Witness ==
  /\ pc = "L343"
  /\ ReviewIdsDistinct
  /\ BatchSize >= 2
  /\ \E k \in 1..(BatchSize - 1) : RejectedReqs = {k}
  /\ Len(printed) = 1

\* C2: neither load ends in an uncaught exception while its target index
\* exists: main() raises inside the review load (line 339) or the business
\* load (line 430) only if the index yelp does not exist.
C2_LoadNeverRaises ==
  (pc = "raised" /\ raisedAt \in {"L335", "L430"}) => ~EsExists(es, "yelp")

\* C3: every per-document index request comes after an aggregate bulk request
\* that failed, and a failed bulk request is not the end of the load.
C3_TwoTierOrder ==
  /\ \A i \in DOMAIN log :
       log[i].op = "index" =>
         \E j \in 1..(i - 1) : log[j].op = "bulk" /\ log[j].result = "raised"
  /\ ~(pc = "raised" /\ raisedAt = "L430")

\* The statements of main() the model steps through, in order.
Labels ==
  <<"L90", "L91", "L92", "L95", "L104", "L109", "L138", "L242", "L243", "L244", "L245",
    "L248", "L250", "L258", "L261", "L265", "L269", "L278", "L299", "L300", "L301",
    "L302", "L305", "L307", "L327", "L335", "L343", "L349", "L357", "L369", "L380",
    "L389", "L407", "L409", "L411", "L430", "L433", "L450", "L461", "done">>

Pos(l) == CHOOSE i \in DOMAIN Labels : Labels[i] = l

\* The statement main() is at, or was at when it raised.
Where == IF pc = "raised" THEN raisedAt ELSE pc

Reached(l) == Pos(Where) >= Pos(l)

IsWrite(r) == r.op \in {"index", "bulk"}

\* The document types a write request carries documents of.
TypesWritten(r) ==
  IF r.op = "index"
    THEN {r.doc_type}
    ELSE {r.body[2 * k - 1].index._type : k \in 1..(Len(r.body) \div 2)}

\* C4 as stated: a write to an index comes after a completed create and
\* put-mapping of that index, and no create, drop or put-mapping on an index
\* follows a document write to it.
C4_NoSchemaChangeAfterWrite ==
  /\ \A j \in DOMAIN log :
       IsWrite(log[j]) =>
         /\ \E i \in 1..(j - 1) :
              log[i].op = "create" /\ log[i].index = log[j].index /\ log[i].result = "ok"
         /\ \E i \in 1..(j - 1) :
              log[i].op = "put_mapping" /\ log[i].index = log[j].index /\ log[i].result = "ok"
  /\ \A i, j \in DOMAIN log :
       (i < j /\ IsWrite(log[i]) /\ log[j].op \in {"create", "delete", "put_mapping"})
         => log[i].index # log[j].index

\* C4 as amended: a write to an index comes after a completed create of the
\* index and a completed put-mapping of each document type it writes; after a
\* write to an index no create or drop of it follows, and a put-mapping that
\* follows is for a document type no earlier request wrote.
C4_SchemaBeforeData ==
  \A j \in DOMAIN log :
    IsWrite(log[j]) =>
      LET types == TypesWritten(log[j]) IN
      /\ \E i \in 1..(j - 1) :
           log[i].op = "create" /\ log[i].index = log[j].index /\ log[i].result = "ok"
      /\ \A t \in types :
           \E i \in 1..(j - 1) :
             /\ log[i].op = "put_mapping" /\ log[i].index = log[j].index
             /\ log[i].doc_type = t /\ log[i].result = "ok"
      /\ \A m \in (j + 1)..Len(log) :
           log[m].op \in {"create", "delete", "put_mapping"} =>
             \/ log[m].index # log[j].index
             \/ log[m].op = "put_mapping" /\ log[m].doc_type \notin types

\* The script has run to its end, having written reviews one by one, put the
\* business mapping and written businesses in bulk.
C4_Witness ==
  /\ pc = "done"
  /\ \E i, m, j \in DOMAIN log :
       /\ i < m /\ m < j
       /\ log[i].op = "index" /\ log[i].result = "ok"
       /\ log[m].op = "put_mapping" /\ log[m].doc_type = "business" /\ log[m].result = "ok"
       /\ log[j].op = "bulk" /\ log[j].result = "ok"

NullRows(rows) == {i \in DOMAIN rows : rows[i].sent_per_token = Null}

\* C5: once line 278 has run, the frame holds no row with a null
\* sent_per_token (the field marked mandatory), and the rows dropped plus the
\* rows kept are the rows read; no payload built from the frame and no
\* document submitted has a null sent_per_token; and at the end of the review
\* load one document has been submitted per row kept, so that rows skipped
\* plus documents submitted equals rows read.
C5_RowFiltering ==
  /\ Reached("L299") =>
       /\ NullRows(df) = {}
       /\ Cardinality(NullRows(df_read)) + Len(df) = Len(df_read)
  /\ \A k \in 1..BatchSize :
       "sent_per_token" \in DOMAIN Payload(k) => Payload(k).sent_per_token # Null
  /\ \A i \in DOMAIN log :
       log[i].op = "index" => "value" \in DOMAIN log[i].body.sent_per_token
  /\ pc = "L343" =>
       Cardinality(NullRows(df_read)) + Len(IndexReqs) = Len(df_read)

\* Two rows were read, one with a null sent_per_token; it was dropped and the
\* other row was submitted.
C5_Witness ==
  /\ pc = "L343"
  /\ Len(df_read) = 2
  /\ Cardinality(NullRows(df_read)) = 1
  /\ Len(df) = 1
  /\ Len(IndexReqs) = 1

\* C6: every create of an index follows an exists check of it, with a drop in
\* between exactly when the index existed; right after the create the index
\* holds no document and the settings supplied; and once the mapping is put,
\* the index's custom analyzers and mappings are exactly the supplied ones,
\* each field that names an analyzer keeping it.
C6_Recreate ==
  /\ \A j \in DOMAIN log :
       log[j].op = "create" =>
         \E i \in 1..(j - 1) :
           /\ log[i].op = "exists" /\ log[i].index = log[j].index
           /\ \A k \in (i + 1)..(j - 1) :
                log[k].index = log[j].index => log[k].op = "delete" /\ log[k].result = "ok"
           /\ log[i].result = "true" <=>
                \E k \in (i + 1)..(j - 1) : log[k].op = "delete" /\ log[k].index = log[j].index
  /\ pc = "L245" =>
       /\ es["my_index"].docs = <<>>
       /\ es["my_index"].settings = MY_SETTINGS
  /\ pc = "L248" =>
       /\ es["my_index"].docs = <<>>
       /\ CustomAnalyzers(es["my_index"].settings) = {"my_analyzer"}
       /\ es["my_index"].mappings = MY_MAPPING
       /\ AnalyzerOf(es["my_index"].mappings["my_doc_type"].properties["title"]) = "my_analyzer"
  /\ pc = "L302" =>
       /\ es["yelp"].docs = <<>>
       /\ es["yelp"].settings = NoBody
  /\ pc = "L305" =>
       /\ es["yelp"].docs = <<>>
       /\ CustomAnalyzers(es["yelp"].settings) = {}
       /\ es["yelp"].mappings = MAPPING
       /\ AnalyzerOf(es["yelp"].mappings["review"].properties["text"]) = "english"

\* The index yelp existed with a document in it, was dropped and created
\* again, and its mapping has been put.
C6_Witness ==
  /\ pc = "L305"
  /\ \E i \in DOMAIN log :
       log[i].op = "delete" /\ log[i].index = "yelp" /\ log[i].result = "ok"
  /\ es["yelp"].docs = <<>>
  /\ es["yelp"].mappings = MAPPING

\* C7: the step that puts the business mapping on the existing index leaves
\* the index's settings, the mappings of its other document types, its
\* documents and every other index as they were, and adds exactly the
\* mapping of the type business.
C7_ReuseIndex ==
  [][(pc = "L407" /\ pc' = "L409") =>
       /\ DOMAIN es' = DOMAIN es
       /\ \A n \in DOMAIN es \ {"yelp"} : es'[n] = es[n]
       /\ es'["yelp"].settings = es["yelp"].settings
       /\ es'["yelp"].docs = es["yelp"].docs
       /\ "business" \notin DOMAIN es["yelp"].mappings
       /\ DOMAIN es'["yelp"].mappings = DOMAIN es["yelp"].mappings \cup {"business"}
       /\ \A t \in DOMAIN es["yelp"].mappings : es'["yelp"].mappings[t] = es["yelp"].mappings[t]
       /\ es'["yelp"].mappings["business"] = B_MAPPING["business"]]_vars

\* The business mapping has been put on an index that holds review documents.
C7_Witness ==
  /\ pc = "L409"
  /\ Len(es["yelp"].docs) >= 1
  /\ DOMAIN es["yelp"].mappings = {"review", "business"}

Max(S) == CHOOSE x \in S : \A y \in S : y <= x

\* The last index request among reqs that was accepted for the review with
\* natural key v, 0 if there is none.
LastOkWrite(reqs, v) ==
  LET ok == {i \in DOMAIN reqs : reqs[i].result = "ok" /\ reqs[i].body.review_id = [value |-> v]}
  IN IF ok = {} THEN 0 ELSE Max(ok)

BusinessDocs == SelectSeq(es["yelp"].docs, LAMBDA d : d._type = "business")

\* The last pair of the bulk body the engine accepted for business id v, 0 if
\* there is none.
LastOkItem(v) ==
  LET ok == {k \in DOMAIN res.items : res.items[k] = "ok" /\ bulk_data[2 * k].business_id = v}
  IN IF ok = {} THEN 0 ELSE Max(ok)

\* C8: from the start of the review load on, no two documents of the index
\* share a type and id; a review id that was written holds exactly one
\* document, the payload of its last accepted write, and one never written
\* holds none; after the bulk load the same holds of the business ids and the
\* accepted items; and the hits of a search hold at most one document per id.
C8_OverwriteById ==
  (Reached("L335") /\ EsExists(es, "yelp")) =>
    LET docs == es["yelp"].docs
        reviews == ReviewDocs
        businesses == BusinessDocs
        reqs == IndexReqs
    IN /\ \A i, j \in DOMAIN docs :
            (docs[i]._type = docs[j]._type /\ docs[i]._id = docs[j]._id) => i = j
       /\ \A v \in {df_read[i].review_id : i \in DOMAIN df_read} :
            LET held == {i \in DOMAIN reviews : reviews[i]._source.review_id = v}
                last == LastOkWrite(reqs, v)
            IN IF last = 0
                 THEN held = {}
                 ELSE /\ Cardinality(held) = 1
                      /\ \A i \in held :
                           /\ reviews[i]._id = v
                           /\ reviews[i]._source = JsonParse(reqs[last].body)
       /\ Reached("L433") =>
            \A v \in {biz[i].business_id : i \in DOMAIN biz} :
              LET held == {i \in DOMAIN businesses : businesses[i]._source.business_id = v}
                  last == LastOkItem(v)
              IN IF last = 0
                   THEN held = {}
                   ELSE /\ Cardinality(held) = 1
                        /\ \A i \in held : businesses[i]._source = bulk_data[2 * last]
       /\ \A i, j \in DOMAIN resp.hits :
            (/\ resp.hits[i]._type = resp.hits[j]._type
             /\ resp.hits[i]._id = resp.hits[j]._id) => i = j

\* The review load has ended after two accepted writes of the same id with
\* different payloads, and the index holds one review.
C8_Witness ==
  /\ pc = "L343"
  /\ \E i, j \in DOMAIN IndexReqs :
       /\ i < j
       /\ IndexReqs[i].result = "ok" /\ IndexReqs[j].result = "ok"
       /\ IndexReqs[i].id = IndexReqs[j].id
       /\ IndexReqs[i].body # IndexReqs[j].body
  /\ Len(ReviewDocs) = 1

QueryTerms == Analyze("english", "good pizza")

ReviewTerms(d) == Analyze("english", d._source.text)

Ids(hits) == {hits[i]._id : i \in DOMAIN hits}

HoldsReviewBatch == Reached("L327") /\ ~Reached("L411")

HoldsBusinessBatch == Reached("L430")

\* bulk_data is two entries per row of rows: at the odd place of the pair
\* (the even index counted from 0) a dict with the one key "index" naming the
\* index yelp, the type and the row's key as _id, and after it the payload,
\* which is no action dict and carries that same key.
PairShape(rows, type, key) ==
  /\ Len(bulk_data) = 2 * Len(rows)
  /\ \A k \in 1..Len(rows) :
       LET op == bulk_data[2 * k - 1]
           data == bulk_data[2 * k]
       IN /\ DOMAIN op = {"index"}
          /\ op.index = [_index |-> "yelp", _type |-> type, _id |-> rows[k][key]]
          /\ "index" \notin DOMAIN data
          /\ key \in DOMAIN data
          /\ data[key] = op.index._id

\* The per-document requests are the first n payloads of the review batch, one
\* request each, in batch order, each under the _id of the action dict before
\* its payload, and none of them carries an action dict.
WalkedPayloads(n) ==
  /\ Len(IndexReqs) = n
  /\ \A j \in 1..n :
       /\ IndexReqs[j].index = "yelp"
       /\ IndexReqs[j].doc_type = "review"
       /\ IndexReqs[j].body = json_dumps(bulk_data[2 * j])
       /\ IndexReqs[j].id = bulk_data[2 * j - 1].index._id
       /\ "index" \notin DOMAIN IndexReqs[j].body

\* C11: once built, the review batch is two entries per row that survived
\* line 278 and the business batch two entries per row read, an action dict
\* and then its payload, the action's _id being the payload's review_id or
\* business_id; the loop of lines 335-341 has sent, when it stands at ind, one
\* request for each payload before ind and for nothing else, in batch order
\* and under the _id of the payload's action dict, and when it has ended one
\* request for each payload of the batch; no later statement sends another.
C11_BulkListShape ==
  /\ HoldsReviewBatch =>
       /\ PairShape(df, "review", "review_id")
       /\ \A k \in 1..Len(df) : bulk_data[2 * k] = review_data_dict(df[k])
  /\ HoldsBusinessBatch =>
       /\ PairShape(biz, "business", "business_id")
       /\ \A k \in 1..Len(biz) : bulk_data[2 * k] = business_data_dict(biz[k])
  /\ Where = "L335" => WalkedPayloads(ind \div 2)
  /\ (Reached("L343") /\ HoldsReviewBatch) => WalkedPayloads(BatchSize)
  /\ Reached("L343") =>
       /\ Len(IndexReqs) = Len(df)
       /\ \A j \in 1..Len(df) : IndexReqs[j].id = df[j].review_id
  /\ ~Reached("L335") => Len(IndexReqs) = 0

\* The loop has ended over a batch of two reviews, of which the engine took
\* one and refused the other, after a row with no sent_per_token was dropped
\* or not.
C11_Witness ==
  /\ pc = "L343"
  /\ BatchSize = 2
  /\ Len(IndexReqs) = 2
  /\ IndexReqs[1].result # IndexReqs[2].result

====
